---------------------------- MODULE Spec2Model ----------------------------
(***************************************************************************)
(* A model of auto_navigation.py: the command loop of                      *)
(* auto_navigation_process, the pure-pursuit helpers find_goal_point /     *)
(* line_circle_intersection / find_min_angle, and the Kalman filter        *)
(* functions initialize_ekf / ekf_predict / ekf_update.                    *)
(*                                                                         *)
(* Real numbers are exact rationals <<n, d>> (d > 0, lowest terms); the    *)
(* coordinates of a line-circle intersection are exact quadratic surds.    *)
(* Five specifications share the variables:                                *)
(*   Spec      the command loop with its producer and an external setter   *)
(*             of stop_event;                                              *)
(*   SpecTrack find_goal_point called repeatedly, each returned index fed  *)
(*             into the next call;                                         *)
(*   SpecAngle find_min_angle on every pair of whole-degree angles;        *)
(*   SpecUpd   one ekf_update call on drawn arguments;                     *)
(*   SpecEkf   initialize_ekf followed by one ekf_predict or ekf_update    *)
(*             call on the globals (the exact rationals of a second call   *)
(*             no longer fit TLC's 32-bit integers).                       *)
(***************************************************************************)
EXTENDS Integers, Sequences, FiniteSets, TLC

VARIABLES
    command_queue,     \* the commands put and not yet got, oldest first
    stop_event,        \* the cancellation flag
    pc,                \* "while": at the loop test; "body": inside a cycle; "done": returned
    waypoints,         \* module global waypoints (line 22)
    ref,               \* module globals ref_lat, ref_lon (line 23)
    proj_utm,          \* module global proj_utm (line 21): None or the projection
    x_est,             \* module global x_est (line 12): None or a 7-vector
    P_est,             \* module global P_est (line 13): None or a 7x7 matrix
    published,         \* what client.publish has been given, in order
    handled,           \* history: the names of the commands the loop has got, in order
    sent,              \* history: how many commands the producer has put
    path,              \* SpecTrack: the planar path
    last_found_index,  \* SpecTrack: the caller's cursor
    call               \* the last call of the function under study: its arguments and result

vars == <<command_queue, stop_event, pc, waypoints, ref, proj_utm, x_est, P_est,
          published, handled, sent, path, last_found_index, call>>

\* Python's None.
None == <<>>

Last(s) == s[Len(s)]

----------------------------------------------------------------------------
(* Bounds of the model.                                                     *)

MaxCmds == 3        \* commands the producer puts in one run
MaxPathLen == 3     \* points of a planar path

----------------------------------------------------------------------------
(* The command loop.                                                        *)

\* f"{n}" for the small non-negative integers the loop formats.
Digits == <<"0", "1", "2", "3", "4", "5", "6", "7", "8", "9">>

RECURSIVE IntToStr(_)
IntToStr(n) == IF n < 10 THEN Digits[n + 1]
               ELSE IntToStr(n \div 10) \o Digits[(n % 10) + 1]

\* The neutral value of both actuator channels (lines 246, 247).
Neutral == 64

\* Lines 246-249: the topic and the payload of the stop command.
StopCommand ==
    LET front_back_command == Neutral
        side_side_command == Neutral
        command_string == IntToStr(front_back_command) \o " " \o IntToStr(side_side_command)
    IN <<"robot/control", command_string>>

\* The geodetic points the producer sends (whole degrees).
GeoPoints == {[lat |-> 1, lng |-> 0], [lat |-> -1, lng |-> 7]}

\* The payloads of a set_waypoints command: sequences of 0, 1 or 2 points.
Payloads == {<<>>} \cup {<<p>> : p \in GeoPoints}
            \cup {<<p, q>> : p \in GeoPoints, q \in GeoPoints}

\* The (command, data) tuples on the queue; "ping" stands for any command
\* the loop does not recognise.
Commands == {<<"set_waypoints", d>> : d \in Payloads}
            \cup {<<"estop", <<>>>>, <<"ping", <<>>>>}

\* Lines 76-81: the projection is fixed by the UTM zone and the hemisphere.
initialize_projection(ref_lat, ref_lon) ==
    LET zone_number == ((ref_lon + 180) \div 6) + 1
        hemisphere == IF ref_lat >= 0 THEN "north" ELSE "south"
    IN <<zone_number, hemisphere>>

\* The planar points the projection library can return.
PlanarPoints == {<<0, 0>>, <<5, 3>>}

\* Lines 83-85: the (x, y) pairs proj_utm(lon, lat) can return; the
\* projection is an external library, so any of PlanarPoints. With no
\* projection the call raises and returns nothing.
latlon_to_xy(proj, lat, lon) ==
    IF proj = None THEN {} ELSE PlanarPoints

\* What calculate_heading can return: degrees in [0, 360) (lines 57-61), 0
\* on a degenerate accelerometer reading (line 41).
HeadingReadings == {0, 270}

----------------------------------------------------------------------------
(* Exact arithmetic: a real number is a rational <<n, d>>, d > 0, in lowest *)
(* terms.                                                                   *)

Abs(n) == IF n < 0 THEN -n ELSE n

RECURSIVE GCD(_, _)
GCD(a, b) == IF b = 0 THEN a ELSE GCD(b, a % b)

Norm(n, d) ==
    LET s == IF d < 0 THEN -1 ELSE 1
        g == GCD(Abs(n), Abs(d))
    IN <<(s * n) \div g, (s * d) \div g>>

R(n) == <<n, 1>>
Zero == R(0)
One == R(1)

RNeg(a) == <<-a[1], a[2]>>

RAdd(a, b) ==
    IF a[1] = 0 THEN b
    ELSE IF b[1] = 0 THEN a
    ELSE LET g == GCD(a[2], b[2])
         IN Norm(a[1] * (b[2] \div g) + b[1] * (a[2] \div g), (a[2] \div g) * b[2])

RSub(a, b) == RAdd(a, RNeg(b))

RMul(a, b) ==
    IF a[1] = 0 \/ b[1] = 0 THEN Zero
    ELSE LET g1 == GCD(Abs(a[1]), b[2])
             g2 == GCD(Abs(b[1]), a[2])
         IN <<(a[1] \div g1) * (b[1] \div g2), (a[2] \div g2) * (b[2] \div g1)>>

RInv(a) == IF a[1] < 0 THEN <<-a[2], -a[1]>> ELSE <<a[2], a[1]>>

RDiv(a, b) == RMul(a, RInv(b))

RLess(a, b) == a[1] * b[2] < b[1] * a[2]

RLeq(a, b) == a[1] * b[2] <= b[1] * a[2]

RIsPos(a) == a[1] > 0

\* Python's a % m for m > 0: a - m * floor(a / m), in [0, m).
RMod(a, m) ==
    LET q == RDiv(a, m)
    IN RSub(a, RMul(m, R(q[1] \div q[2])))

----------------------------------------------------------------------------
(* Matrices: sequences of rows of rationals.                                *)

RECURSIVE Dot(_, _, _, _)
\* sum over k in 1..n of A[i][k] * B[k][j]
Dot(A, B, ij, n) ==
    IF n = 0 THEN Zero
    ELSE RAdd(Dot(A, B, ij, n - 1), RMul(A[ij[1]][n], B[n][ij[2]]))

RECURSIVE RowOf(_, _, _, _)
RowOf(A, B, i, m) ==
    IF m = 0 THEN <<>>
    ELSE Append(RowOf(A, B, i, m - 1), Dot(A, B, <<i, m>>, Len(B)))

RECURSIVE RowsOf(_, _, _)
RowsOf(A, B, n) ==
    IF n = 0 THEN <<>>
    ELSE Append(RowsOf(A, B, n - 1), RowOf(A, B, n, Len(B[1])))

\* A @ B
MatMul(A, B) == RowsOf(A, B, Len(A))

RECURSIVE TRow(_, _, _)
TRow(A, j, n) == IF n = 0 THEN <<>> ELSE Append(TRow(A, j, n - 1), A[n][j])

RECURSIVE TRows(_, _)
TRows(A, m) == IF m = 0 THEN <<>> ELSE Append(TRows(A, m - 1), TRow(A, m, Len(A)))

\* A.T
Transpose(A) == TRows(A, Len(A[1]))

RECURSIVE ZipRow(_, _, _, _)
ZipRow(a, b, s, n) ==
    IF n = 0 THEN <<>>
    ELSE Append(ZipRow(a, b, s, n - 1), RAdd(a[n], RMul(s, b[n])))

RECURSIVE ZipRows(_, _, _, _)
ZipRows(A, B, s, n) ==
    IF n = 0 THEN <<>>
    ELSE Append(ZipRows(A, B, s, n - 1), ZipRow(A[n], B[n], s, Len(A[n])))

\* A + B and A - B
MatAdd(A, B) == ZipRows(A, B, One, Len(A))
MatSub(A, B) == ZipRows(A, B, R(-1), Len(A))

RECURSIVE ScaleRow(_, _, _)
ScaleRow(a, s, n) == IF n = 0 THEN <<>> ELSE Append(ScaleRow(a, s, n - 1), RMul(s, a[n]))

RECURSIVE ScaleRows(_, _, _)
ScaleRows(A, s, n) ==
    IF n = 0 THEN <<>> ELSE Append(ScaleRows(A, s, n - 1), ScaleRow(A[n], s, Len(A[n])))

\* A * s for a scalar s
MatScale(A, s) == ScaleRows(A, s, Len(A))

RECURSIVE DiagRow(_, _, _)
DiagRow(d, i, n) ==
    IF n = 0 THEN <<>>
    ELSE Append(DiagRow(d, i, n - 1), IF n = i THEN d[i] ELSE Zero)

RECURSIVE DiagRows(_, _)
DiagRows(d, n) == IF n = 0 THEN <<>> ELSE Append(DiagRows(d, n - 1), DiagRow(d, n, Len(d)))

\* np.diag(d)
Diag(d) == DiagRows(d, Len(d))

RECURSIVE Ones(_)
Ones(n) == IF n = 0 THEN <<>> ELSE Append(Ones(n - 1), One)

\* np.eye(n)
Eye(n) == Diag(Ones(n))

RECURSIVE ZeroRow(_)
ZeroRow(m) == IF m = 0 THEN <<>> ELSE Append(ZeroRow(m - 1), Zero)

RECURSIVE ZeroRows(_, _)
ZeroRows(n, m) == IF n = 0 THEN <<>> ELSE Append(ZeroRows(n - 1, m), ZeroRow(m))

\* np.zeros_like(A)
ZerosLike(A) == ZeroRows(Len(A), Len(A[1]))

\* A column vector (n x 1) from a sequence of rationals.
RECURSIVE Col(_, _)
Col(v, n) == IF n = 0 THEN <<>> ELSE Append(Col(v, n - 1), <<v[n]>>)
Column(v) == Col(v, Len(v))

\* The sequence <<f[1], ..., f[n]>> of a function f on 1..n.
RECURSIVE Tup(_, _)
Tup(f, n) == IF n = 0 THEN <<>> ELSE Append(Tup(f, n - 1), f[n])

\* One column of Gauss-Jordan elimination on A (n x n) beside B: the rows of
\* both after row p is swapped to row c, scaled to a unit pivot and
\* subtracted from every other row.
Eliminate(M, c, p, n) ==
    LET sw == Tup([i \in 1..n |-> IF i = c THEN M[p] ELSE IF i = p THEN M[c] ELSE M[i]], n)
        piv == sw[c][c]
        w == Len(sw[c])
        unit == Tup([j \in 1..w |-> RDiv(sw[c][j], piv)], w)
    IN Tup([i \in 1..n |->
              IF i = c THEN unit
              ELSE Tup([j \in 1..w |-> RSub(sw[i][j], RMul(sw[i][c], unit[j]))], w)], n)

RECURSIVE GaussJordan(_, _, _)
\* M is A beside the identity (n x 2n); None when a column has no pivot.
GaussJordan(M, c, n) ==
    IF c > n THEN M
    ELSE LET cand == {p \in c..n : M[p][c][1] # 0}
         IN IF cand = {} THEN None
            ELSE LET p == CHOOSE q \in cand : \A r \in cand : q <= r
                 IN GaussJordan(Eliminate(M, c, p, n), c + 1, n)

\* np.linalg.inv(A): the inverse, or None where numpy raises LinAlgError
\* (A is singular).
Inv(A) ==
    LET n == Len(A)
        I == Eye(n)
        M == Tup([i \in 1..n |-> A[i] \o I[i]], n)
        G == GaussJordan(M, 1, n)
    IN IF G = None THEN None
       ELSE Tup([i \in 1..n |-> SubSeq(G[i], n + 1, 2 * n)], n)

RECURSIVE PivotsPositive(_, _)
\* Whether every pivot of the symmetric matrix M (n x n) is positive, by
\* Schur complements: for a symmetric matrix this is np.all(eigvals(M) > 0).
PivotsPositive(M, n) ==
    IF n = 0 THEN TRUE
    ELSE /\ RIsPos(M[1][1])
         /\ PivotsPositive(
                Tup([i \in 1..(n - 1) |->
                       Tup([j \in 1..(n - 1) |->
                              RSub(M[i + 1][j + 1],
                                   RDiv(RMul(M[i + 1][1], M[1][j + 1]), M[1][1]))],
                           n - 1)],
                    n - 1),
                n - 1)

----------------------------------------------------------------------------
(* The Kalman filter.                                                       *)

\* np.pi, as the rational 22/7.
PiNum == 22
PiDen == 7
Pi == <<PiNum, PiDen>>
TwoPi == RMul(R(2), Pi)

\* math.radians(deg)
radians(deg) == RDiv(RMul(deg, Pi), R(180))

\* Line 11: dt = 0.1
dt == <<1, 10>>

\* Line 16: Q = np.diag([0.05, 0.05, 0.02, 0.02, 0.005, 0.005, 0.002])
Q == Diag(<< <<1, 20>>, <<1, 20>>, <<1, 50>>, <<1, 50>>, <<1, 200>>, <<1, 200>>, <<1, 500>> >>)

\* Line 19: R = np.diag([10.0, 10.0, 0.1])
Rm == Diag(<< R(10), R(10), <<1, 10>> >>)

\* Lines 161-169: the state transition matrix.
F ==
    LET h == RMul(<<1, 2>>, RMul(dt, dt))
    IN << <<One, Zero, dt, Zero, h, Zero, Zero>>,
          <<Zero, One, Zero, dt, Zero, h, Zero>>,
          <<Zero, Zero, One, Zero, dt, Zero, Zero>>,
          <<Zero, Zero, Zero, One, Zero, dt, Zero>>,
          <<Zero, Zero, Zero, Zero, One, Zero, Zero>>,
          <<Zero, Zero, Zero, Zero, Zero, One, Zero>>,
          <<Zero, Zero, Zero, Zero, Zero, Zero, One>> >>

\* Lines 181-185: the measurement matrix.
H == << <<One, Zero, Zero, Zero, Zero, Zero, Zero>>,
        <<Zero, One, Zero, Zero, Zero, Zero, Zero>>,
        <<Zero, Zero, Zero, Zero, Zero, Zero, One>> >>

\* Lines 159-177.
ekf_predict(x, P, accel_data) ==
    LET u == Column(<<Zero, Zero, Zero, Zero, accel_data[1], accel_data[2], Zero>>)
        x_pred == MatAdd(MatMul(F, x), MatScale(u, dt))
        P_pred == MatAdd(MatMul(MatMul(F, P), Transpose(F)), Q)
    IN [x |-> x_pred, P |-> P_pred]

\* Line 188 without the shift before the modulo: (a % (2 * np.pi)) - np.pi
NormalizeAngleNoShift(a) == RSub(RMod(a, TwoPi), Pi)

\* Line 188: ((a + np.pi) % (2 * np.pi)) - np.pi
NormalizeAngle(a) == RSub(RMod(RAdd(a, Pi), TwoPi), Pi)

\* Lines 179-206. The call reads the module global x_est for the size of the
\* identity (line 199): with x_est None, len(x_est) raises TypeError.
ekf_update(x_pred, P_pred, z_meas) ==
    LET y0 == MatSub(z_meas, MatMul(H, x_pred))
        y == <<y0[1], y0[2], <<NormalizeAngle(y0[3][1])>> >>
        S == MatAdd(MatMul(MatMul(H, P_pred), Transpose(H)), Rm)
        PHt == MatMul(P_pred, Transpose(H))
        Sinv == Inv(S)
        K == IF Sinv = None THEN ZerosLike(PHt) ELSE MatMul(PHt, Sinv)
        x_est_new == MatAdd(x_pred, MatMul(K, y))
        P_est_new == MatMul(MatSub(Eye(Len(x_est)), MatMul(K, H)), P_pred)
    IN IF x_est = None
       THEN [raised |-> TRUE, y |-> y, singular |-> Sinv = None, x |-> None, P |-> None]
       ELSE [raised |-> FALSE, y |-> y, singular |-> Sinv = None, x |-> x_est_new,
             P |-> IF PivotsPositive(P_est_new, Len(P_est_new)) THEN P_est_new ELSE P_pred]

\* initialize_ekf without math.radians at line 221.
initialize_ekf_degrees(initial_x, initial_y, initial_theta) ==
    IF initial_x = None \/ initial_y = None \/ initial_theta = None
    THEN [x |-> x_est, P |-> P_est]
    ELSE [x |-> Column(<<initial_x, initial_y, Zero, Zero, Zero, Zero, initial_theta>>),
          P |-> MatScale(Eye(7), R(500))]

\* Lines 208-224: the new values of the globals x_est and P_est.
initialize_ekf(initial_x, initial_y, initial_theta) ==
    IF initial_x = None \/ initial_y = None \/ initial_theta = None
    THEN [x |-> x_est, P |-> P_est]
    ELSE [x |-> Column(<<initial_x, initial_y, Zero, Zero, Zero, Zero,
                         radians(initial_theta)>>),
          P |-> MatScale(Eye(7), R(500))]

----------------------------------------------------------------------------
(* auto_navigation_process (lines 226-258) with its environment: the        *)
(* producer of the command queue and an external setter of stop_event.      *)

NoCall == [fn |-> "none"]

InitNav ==
    /\ command_queue = <<>>
    /\ stop_event = FALSE
    /\ pc = "while"
    /\ waypoints = <<>>
    /\ ref = <<0, 0>>
    /\ proj_utm = None
    /\ x_est = None
    /\ P_est = None
    /\ published = <<>>
    /\ handled = <<>>
    /\ sent = 0
    /\ path = <<>>
    /\ last_found_index = 0
    /\ call = NoCall

\* command_queue.put((command, data)) by the producer, at any time.
Put ==
    /\ sent < MaxCmds
    /\ \E c \in Commands : command_queue' = Append(command_queue, c)
    /\ sent' = sent + 1
    /\ UNCHANGED <<stop_event, pc, waypoints, ref, proj_utm, x_est, P_est,
                   published, handled, path, last_found_index, call>>

\* stop_event.set() by another thread, at any time.
ExternalSet ==
    /\ ~stop_event
    /\ stop_event' = TRUE
    /\ UNCHANGED <<command_queue, pc, waypoints, ref, proj_utm, x_est, P_est,
                   published, handled, sent, path, last_found_index, call>>

\* Line 229: while not stop_event.is_set()
LoopTest ==
    /\ pc = "while"
    /\ pc' = IF stop_event THEN "done" ELSE "body"
    /\ UNCHANGED <<command_queue, stop_event, waypoints, ref, proj_utm, x_est, P_est,
                   published, handled, sent, path, last_found_index, call>>

\* Line 234: [(point['lat'], point['lng']) for point in coordinates]
LatLngs(coordinates) ==
    Tup([i \in 1..Len(coordinates) |-> <<coordinates[i].lat, coordinates[i].lng>>],
        Len(coordinates))

\* Lines 232-243: a set_waypoints command.
SetWaypoints ==
    /\ pc = "body" /\ command_queue # <<>>
    /\ Head(command_queue)[1] = "set_waypoints"
    /\ command_queue' = Tail(command_queue)
    /\ handled' = Append(handled, Head(command_queue)[1])
    /\ waypoints' = LatLngs(Head(command_queue)[2])
    /\ IF waypoints' # <<>>
       THEN /\ ref' = waypoints'[1]
            /\ proj_utm' = initialize_projection(ref'[1], ref'[2])
            /\ \E xy \in latlon_to_xy(proj_utm', ref'[1], ref'[2]) :
               \E initial_theta \in HeadingReadings :
                  LET ekf == initialize_ekf(R(xy[1]), R(xy[2]), R(initial_theta))
                  IN x_est' = ekf.x /\ P_est' = ekf.P
       ELSE UNCHANGED <<ref, proj_utm, x_est, P_est>>
    /\ pc' = "while"
    /\ UNCHANGED <<stop_event, published, sent, path, last_found_index, call>>

\* Estop without line 245 (stop_event.set()).
EstopNoSet ==
    /\ pc = "body" /\ command_queue # <<>>
    /\ Head(command_queue)[1] = "estop"
    /\ command_queue' = Tail(command_queue)
    /\ handled' = Append(handled, Head(command_queue)[1])
    /\ published' = Append(published, StopCommand)
    /\ pc' = "while"
    /\ UNCHANGED <<stop_event, waypoints, ref, proj_utm, x_est, P_est, sent, path,
                   last_found_index, call>>

\* Lines 244-249: an estop command.
Estop ==
    /\ pc = "body" /\ command_queue # <<>>
    /\ Head(command_queue)[1] = "estop"
    /\ command_queue' = Tail(command_queue)
    /\ handled' = Append(handled, Head(command_queue)[1])
    /\ stop_event' = TRUE
    /\ published' = Append(published, StopCommand)
    /\ pc' = "while"
    /\ UNCHANGED <<waypoints, ref, proj_utm, x_est, P_est, sent, path,
                   last_found_index, call>>

\* Lines 231-249 for a command that is neither: it is got and dropped.
Unrecognised ==
    /\ pc = "body" /\ command_queue # <<>>
    /\ Head(command_queue)[1] \notin {"set_waypoints", "estop"}
    /\ command_queue' = Tail(command_queue)
    /\ handled' = Append(handled, Head(command_queue)[1])
    /\ pc' = "while"
    /\ UNCHANGED <<stop_event, waypoints, ref, proj_utm, x_est, P_est, published,
                   sent, path, last_found_index, call>>

\* Lines 251-253: no command and no waypoints: sleep and continue.
IdleWait ==
    /\ pc = "body" /\ command_queue = <<>> /\ waypoints = <<>>
    /\ pc' = "while"
    /\ UNCHANGED <<command_queue, stop_event, waypoints, ref, proj_utm, x_est, P_est,
                   published, handled, sent, path, last_found_index, call>>

\* Lines 254-258: no command, waypoints set: the cycle only sleeps.
ActiveCycle ==
    /\ pc = "body" /\ command_queue = <<>> /\ waypoints # <<>>
    /\ pc' = "while"
    /\ UNCHANGED <<command_queue, stop_event, waypoints, ref, proj_utm, x_est, P_est,
                   published, handled, sent, path, last_found_index, call>>

Next == Put \/ ExternalSet \/ LoopTest \/ SetWaypoints \/ Estop \/ Unrecognised
        \/ IdleWait \/ ActiveCycle

Spec == InitNav /\ [][Next]_vars

----------------------------------------------------------------------------
(* Properties of the command loop.                                          *)

\* An estop command has been got.
EstopSeen == \E i \in 1..Len(handled) : handled[i] = "estop"

\* The step gets the command at the head of the queue.
Gets(name) ==
    /\ pc = "body" /\ command_queue # <<>> /\ Head(command_queue)[1] = name
    /\ handled' = Append(handled, name)

\* C1: the step that gets an estop command sets stop_event and publishes
\* "64 64" on robot/control, whatever the waypoints were; from then on the
\* loop is at its test or has returned, no command is got (the queue only
\* grows), and waypoints, reference point, projection, filter state and the
\* published messages never change.
C1_EstopIsTerminal ==
    [][ /\ Gets("estop") =>
              /\ stop_event'
              /\ published' = Append(published, <<"robot/control", "64 64">>)
              /\ pc' = "while"
        /\ EstopSeen =>
              /\ stop_event /\ stop_event'
              /\ pc \in {"while", "done"} /\ pc' \in {"while", "done"}
              /\ pc' # pc => pc' = "done"
              /\ handled' = handled
              /\ Len(command_queue') >= Len(command_queue)
              /\ SubSeq(command_queue', 1, Len(command_queue)) = command_queue
              /\ UNCHANGED <<waypoints, ref, proj_utm, x_est, P_est, published>>
      ]_vars

\* C1 witness: the loop has returned after an estop got while waypoints were
\* set, and a command put behind it is still on the queue.
C1_Witness ==
    /\ EstopSeen /\ pc = "done"
    /\ waypoints # <<>>
    /\ command_queue # <<>>
    /\ Last(published) = <<"robot/control", "64 64">>

\* C2 (as claimed): the loop returns only from its test, and only after the
\* stop command has been published.
C2_ExitAfterStopCommand ==
    [][ (pc # "done" /\ pc' = "done") =>
            /\ pc = "while"
            /\ \E i \in 1..Len(published) : published[i] = <<"robot/control", "64 64">>
      ]_vars

\* C3 (as claimed): getting a set_waypoints command with an empty sequence
\* changes neither the waypoints nor the projection nor the filter state.
C3_EmptyPathKeepsState ==
    [][ (Gets("set_waypoints") /\ Head(command_queue)[2] = <<>>) =>
            UNCHANGED <<waypoints, ref, proj_utm, x_est, P_est>>
      ]_vars

\* C4 (as claimed): a cycle with no command pending runs the predict step
\* and publishes a steering command when waypoints are set and the loop is
\* not stopped, and does neither when no waypoints are set.
C4_ActiveCycleSteers ==
    [][ (pc = "body" /\ pc' = "while" /\ command_queue = <<>>) =>
            IF waypoints # <<>> /\ ~stop_event
            THEN /\ Len(published') = Len(published) + 1
                 /\ P_est' = ekf_predict(x_est, P_est, <<Zero, Zero>>).P
            ELSE UNCHANGED <<published, x_est, P_est>>
      ]_vars

----------------------------------------------------------------------------
(* find_min_angle (lines 137-143) on whole degrees.                         *)

\* find_min_angle without its second branch (lines 141-142).
find_min_angle_no_elif(abs_target_angle, current_heading) ==
    LET min_angle == abs_target_angle - current_heading
    IN IF min_angle > 180 THEN min_angle - 360 ELSE min_angle

\* Lines 137-143.
find_min_angle(abs_target_angle, current_heading) ==
    LET min_angle == abs_target_angle - current_heading
    IN IF min_angle > 180 THEN min_angle - 360
       ELSE IF min_angle < -180 THEN min_angle + 360
       ELSE min_angle

\* The whole-degree angles of [0, 360).
Degrees == 0..359

InitAngle ==
    /\ command_queue = <<>> /\ stop_event = FALSE /\ pc = "call"
    /\ waypoints = <<>> /\ ref = <<0, 0>> /\ proj_utm = None
    /\ x_est = None /\ P_est = None
    /\ published = <<>> /\ handled = <<>> /\ sent = 0
    /\ path = <<>> /\ last_found_index = 0
    /\ \E t \in Degrees, h \in Degrees :
          call = [fn |-> "find_min_angle", abs_target_angle |-> t,
                  current_heading |-> h, returned |-> FALSE, result |-> 0]

\* The call returns.
CallFindMinAngle ==
    /\ pc = "call" /\ call.fn = "find_min_angle" /\ ~call.returned
    /\ call' = [call EXCEPT !.returned = TRUE,
                            !.result = find_min_angle(call.abs_target_angle,
                                                      call.current_heading)]
    /\ pc' = "returned"
    /\ UNCHANGED <<command_queue, stop_event, waypoints, ref, proj_utm, x_est, P_est,
                   published, handled, sent, path, last_found_index>>

NextAngle == CallFindMinAngle

SpecAngle == InitAngle /\ [][NextAngle]_vars

\* C7: for target and heading in [0, 360) the result of find_min_angle lies
\* in [-180, 180] and differs from target - heading by a multiple of 360;
\* find_min_angle(350, 10) = -20 and find_min_angle(10, 350) = 20.
C7_MinAngle ==
    (call.fn = "find_min_angle" /\ call.returned) =>
        LET t == call.abs_target_angle
            h == call.current_heading
        IN /\ -180 <= call.result /\ call.result <= 180
           /\ (call.result - (t - h)) % 360 = 0
           /\ (t = 350 /\ h = 10) => call.result = -20
           /\ (t = 10 /\ h = 350) => call.result = 20

\* C7 witness: the call across the 0/360 boundary has returned -20.
C7_Witness ==
    /\ call.fn = "find_min_angle" /\ call.returned
    /\ call.abs_target_angle = 350 /\ call.current_heading = 10
    /\ call.result = -20

----------------------------------------------------------------------------
(* One ekf_update call (lines 179-206) on drawn arguments, in a module      *)
(* whose global x_est is still None or has been initialised.                *)

\* Predicted headings, in degrees: inside and outside (-180, 180].
PredictedDegrees == {-180, -1, 0, 179, 270, 540}

\* Measured headings, in degrees of (-180, 180].
MeasuredDegrees == {-179, -90, 0, 90, 180}

\* The covariance of a fresh filter (line 223).
FreshP == MatScale(Eye(7), R(500))

\* A state vector at the planar point xy with heading deg (degrees).
StateAt(xy, deg) ==
    Column(<<R(xy[1]), R(xy[2]), Zero, Zero, Zero, Zero, radians(R(deg))>>)

\* Predicted covariances: a fresh one, and two for which S = H P H^T + R is
\* singular (a zero on the diagonal of S; two equal rows of S).
PredictedCovariances ==
    { FreshP,
      Diag(<<R(-10), R(500), R(500), R(500), R(500), R(500), R(500)>>),
      [Diag(<<Zero, Zero, R(500), R(500), R(500), R(500), R(500)>>)
          EXCEPT ![1][2] = R(10), ![2][1] = R(10)] }

InitUpd ==
    /\ command_queue = <<>> /\ stop_event = FALSE /\ pc = "call"
    /\ waypoints = <<>> /\ ref = <<0, 0>> /\ proj_utm = None
    /\ published = <<>> /\ handled = <<>> /\ sent = 0
    /\ path = <<>> /\ last_found_index = 0
    /\ \/ x_est = None /\ P_est = None
       \/ LET ekf == initialize_ekf(R(0), R(0), R(0))
          IN x_est = ekf.x /\ P_est = ekf.P
    /\ \E p \in PredictedDegrees, m \in MeasuredDegrees, P \in PredictedCovariances :
          call = [fn |-> "ekf_update",
                  x_pred |-> StateAt(<<5, 3>>, p),
                  P_pred |-> P,
                  z_meas |-> Column(<<R(5), R(4), radians(R(m))>>),
                  returned |-> FALSE, result |-> None]

\* The call returns or raises.
CallEkfUpdate ==
    /\ pc = "call" /\ call.fn = "ekf_update" /\ ~call.returned
    /\ call' = [call EXCEPT !.returned = TRUE,
                            !.result = ekf_update(call.x_pred, call.P_pred, call.z_meas)]
    /\ pc' = "returned"
    /\ UNCHANGED <<command_queue, stop_event, waypoints, ref, proj_utm, x_est, P_est,
                   published, handled, sent, path, last_found_index>>

NextUpd == CallEkfUpdate

SpecUpd == InitUpd /\ [][NextUpd]_vars

\* The heading innovation of the call before and after line 188.
RawHeadingInnovation == RSub(call.z_meas[3][1], call.x_pred[7][1])
HeadingInnovation == call.result.y[3][1]

\* C8 (as claimed): the heading innovation lies in (-pi, pi] and differs from
\* measured - predicted by a multiple of 2 pi.
C8_InnovationInHalfOpenAbove ==
    (call.fn = "ekf_update" /\ call.returned) =>
        /\ RLess(RNeg(Pi), HeadingInnovation) /\ RLeq(HeadingInnovation, Pi)
        /\ RMod(RSub(HeadingInnovation, RawHeadingInnovation), TwoPi) = Zero

\* C8 (amended): the heading innovation lies in [-pi, pi] and differs from
\* measured - predicted by a multiple of 2 pi; a difference of pi modulo
\* 2 pi becomes -pi, not pi; measured -179 degrees against predicted 179
\* degrees gives 2 degrees.
C8_InnovationWrapped ==
    (call.fn = "ekf_update" /\ call.returned) =>
        /\ RLeq(RNeg(Pi), HeadingInnovation) /\ RLeq(HeadingInnovation, Pi)
        /\ RMod(RSub(HeadingInnovation, RawHeadingInnovation), TwoPi) = Zero
        /\ RMod(RSub(RawHeadingInnovation, Pi), TwoPi) = Zero
              => HeadingInnovation = RNeg(Pi)
        /\ (call.z_meas[3][1] = radians(R(-179)) /\ call.x_pred[7][1] = radians(R(179)))
              => HeadingInnovation = radians(R(2))

\* C8 witness: the call with measured -179 degrees and predicted 179 degrees
\* has computed an innovation of 2 degrees.
C8_Witness ==
    /\ call.fn = "ekf_update" /\ call.returned
    /\ call.z_meas[3][1] = radians(R(-179)) /\ call.x_pred[7][1] = radians(R(179))
    /\ HeadingInnovation = radians(R(2))

\* C9 (as claimed): when S is singular the call does not raise and returns
\* the predicted state and the predicted covariance.
C9_SingularKeepsPrediction ==
    (call.fn = "ekf_update" /\ call.returned /\ call.result.singular) =>
        /\ ~call.result.raised
        /\ call.result.x = call.x_pred
        /\ call.result.P = call.P_pred

----------------------------------------------------------------------------
(* The filter globals under initialize_ekf and one following ekf_predict or *)
(* ekf_update call whose result the caller stores back.                     *)

\* Initial headings, in degrees of [0, 360), and None (no heading).
InitialHeadings == {R(0), R(90), R(180), R(270), R(359), None}

\* Accelerometer readings per axis, in m/s^2.
Accels == {R(-1), Zero, One}

InitEkf ==
    /\ command_queue = <<>> /\ stop_event = FALSE /\ pc = "none"
    /\ waypoints = <<>> /\ ref = <<0, 0>> /\ proj_utm = None
    /\ published = <<>> /\ handled = <<>> /\ sent = 0
    /\ path = <<>> /\ last_found_index = 0
    /\ x_est = None /\ P_est = None
    /\ call = [fn |-> "none", theta0 |-> None, updated |-> FALSE]

\* initialize_ekf(initial_x, initial_y, initial_theta), at any time.
InitializeEkf ==
    \E xy \in PlanarPoints, initial_theta \in InitialHeadings :
       LET ekf == initialize_ekf(R(xy[1]), R(xy[2]), initial_theta)
       IN /\ x_est' = ekf.x /\ P_est' = ekf.P
          /\ IF initial_theta = None
             THEN /\ pc' = pc
                  /\ call' = [call EXCEPT !.fn = "initialize_ekf"]
             ELSE /\ pc' = "fresh"
                  /\ call' = [fn |-> "initialize_ekf", theta0 |-> initial_theta,
                              updated |-> FALSE]
          /\ UNCHANGED <<command_queue, stop_event, waypoints, ref, proj_utm,
                         published, handled, sent, path, last_found_index>>

\* x_est, P_est = ekf_predict(x_est, P_est, accel_data)
Predict ==
    /\ pc = "fresh"
    /\ \E ax \in Accels, ay \in Accels :
          LET r == ekf_predict(x_est, P_est, <<ax, ay>>)
          IN x_est' = r.x /\ P_est' = r.P
    /\ pc' = "used"
    /\ call' = [call EXCEPT !.fn = "ekf_predict"]
    /\ UNCHANGED <<command_queue, stop_event, waypoints, ref, proj_utm,
                   published, handled, sent, path, last_found_index>>

\* x_est, P_est = ekf_update(x_est, P_est, z_meas)
Update ==
    /\ pc = "fresh"
    /\ \E xy \in PlanarPoints, m \in MeasuredDegrees :
          LET r == ekf_update(x_est, P_est,
                              Column(<<R(xy[1]), R(xy[2]), radians(R(m))>>))
          IN x_est' = r.x /\ P_est' = r.P
    /\ pc' = "used"
    /\ call' = [call EXCEPT !.fn = "ekf_update", !.updated = TRUE]
    /\ UNCHANGED <<command_queue, stop_event, waypoints, ref, proj_utm,
                   published, handled, sent, path, last_found_index>>

NextEkf == InitializeEkf \/ Predict \/ Update

SpecEkf == InitEkf /\ [][NextEkf]_vars

\* The heading component of the filter state.
theta == x_est[7][1]

\* C10 (as claimed): the stored heading lies in (-pi, pi] in every state of
\* an initialised filter.
C10_ThetaWrapped ==
    x_est # None => (RLess(RNeg(Pi), theta) /\ RLeq(theta, Pi))

\* C10 (amended): after initialize_ekf with a heading h of [0, 360) degrees,
\* and after an ekf_predict that follows it, the stored heading is
\* h * pi / 180, which lies in [0, 2 pi).
C10_ThetaIsInitialHeading ==
    (x_est # None /\ ~call.updated) =>
        /\ theta = RDiv(RMul(call.theta0, <<22, 7>>), R(180))
        /\ RLeq(Zero, theta) /\ RLess(theta, RMul(R(2), <<22, 7>>))

\* C10 witness: a filter initialised with heading 270 degrees has run a
\* predict step and its heading is 3 pi / 2, above pi.
C10_Witness ==
    /\ x_est # None /\ call.fn = "ekf_predict"
    /\ call.theta0 = R(270)
    /\ theta = RMul(<<3, 2>>, <<22, 7>>)

----------------------------------------------------------------------------
(* Pure pursuit: line_circle_intersection and find_goal_point (lines        *)
(* 94-135) on integer points. A coordinate of an intersection is the exact  *)
(* surd (a + b * sqrt(d)) / r, compared without rounding; on these inputs   *)
(* the 1e-6 slack of lines 118-121 admits exactly the points that lie on    *)
(* the bounding box, as the exact comparison does.                          *)

Sign(n) == IF n > 0 THEN 1 ELSE IF n < 0 THEN -1 ELSE 0

\* The sign of a + b * sqrt(d), for integers a, b and d >= 0.
SurdSign(a, b, d) ==
    IF b = 0 \/ d = 0 THEN Sign(a)
    ELSE IF a = 0 THEN Sign(b)
    ELSE IF Sign(a) = Sign(b) THEN Sign(a)
    ELSE IF a > 0 THEN Sign(a * a - b * b * d)
    ELSE Sign(b * b * d - a * a)

Min(a, b) == IF a <= b THEN a ELSE b
Max(a, b) == IF a >= b THEN a ELSE b

\* Lines 94-95.
sgn(num) == IF num >= 0 THEN 1 ELSE -1

\* The point ((xa + xb * sqrt(d)) / r, (ya + yb * sqrt(d)) / r).
SurdPoint(xa, xb, ya, yb, d, r) ==
    [xa |-> xa, xb |-> xb, ya |-> ya, yb |-> yb, d |-> d, r |-> r]

\* A point with integer coordinates, such as a point of the path.
ExactPoint(pt) == SurdPoint(pt[1], 0, pt[2], 0, 0, 1)

\* Line 122: min_x <= x <= max_x and min_y <= y <= max_y
InBox(p, pt1, pt2) ==
    /\ SurdSign(p.xa - Min(pt1[1], pt2[1]) * p.r, p.xb, p.d) >= 0
    /\ SurdSign(p.xa - Max(pt1[1], pt2[1]) * p.r, p.xb, p.d) <= 0
    /\ SurdSign(p.ya - Min(pt1[2], pt2[2]) * p.r, p.yb, p.d) >= 0
    /\ SurdSign(p.ya - Max(pt1[2], pt2[2]) * p.r, p.yb, p.d) <= 0

\* Lines 97-125. With pt1 = pt2 the divisor dr ** 2 of lines 114-115 is 0.0:
\* on Python floats ("float") the division raises ZeroDivisionError, on
\* numpy scalars ("float64") it gives nan, which fails the test of line 122.
line_circle_intersection(current_pos, pt1, pt2, look_ahead_distance, numeric) ==
    LET x1 == pt1[1] - current_pos[1]
        y1 == pt1[2] - current_pos[2]
        x2 == pt2[1] - current_pos[1]
        y2 == pt2[2] - current_pos[2]
        dx == x2 - x1
        dy == y2 - y1
        dr2 == dx * dx + dy * dy
        D == x1 * y2 - x2 * y1
        discriminant == look_ahead_distance * look_ahead_distance * dr2 - D * D
        sign_dy == IF dy # 0 THEN sgn(dy) ELSE 1
        pt(sign) == SurdPoint(D * dy + current_pos[1] * dr2, sign * sign_dy * dx,
                              -D * dx + current_pos[2] * dr2, Abs(dy) * sign,
                              discriminant, dr2)
    IN IF discriminant < 0 THEN [raised |-> FALSE, intersections |-> <<>>]
       ELSE IF dr2 = 0
            THEN [raised |-> numeric = "float", intersections |-> <<>>]
            ELSE [raised |-> FALSE,
                  intersections |-> SelectSeq(<<pt(1), pt(-1)>>,
                                              LAMBDA p : InBox(p, pt1, pt2))]

\* Whether intersection q is strictly nearer to pt2 than intersection p
\* (lines 91-92 and 133, on the squares of the distances).
Nearer(q, p, pt2) ==
    LET ax(w) == w.xa - pt2[1] * w.r
        ay(w) == w.ya - pt2[2] * w.r
        U(w) == ax(w) * ax(w) + ay(w) * ay(w) + (w.xb * w.xb + w.yb * w.yb) * w.d
        V(w) == 2 * (ax(w) * w.xb + ay(w) * w.yb)
    IN SurdSign(U(q) - U(p), V(q) - V(p), p.d) < 0

\* Line 133: min(intersections, key=...), the first of the nearest.
NearestTo(intersections, pt2) ==
    IF Len(intersections) = 2 /\ Nearer(intersections[2], intersections[1], pt2)
    THEN intersections[2]
    ELSE intersections[1]

RECURSIVE ScanFrom(_, _, _, _, _, _)
\* Lines 128-135 from segment i on (0-based, as in the code); examined is
\* the set of segments looked at so far.
ScanFrom(pth, current_pos, look_ahead_distance, i, numeric, examined) ==
    IF i >= Len(pth) - 1
    THEN [raised |-> FALSE, goal_point |-> ExactPoint(pth[Len(pth)]),
          index |-> Len(pth) - 1, examined |-> examined]
    ELSE LET pt1 == pth[i + 1]
             pt2 == pth[i + 2]
             r == line_circle_intersection(current_pos, pt1, pt2,
                                           look_ahead_distance, numeric)
         IN IF r.raised
            THEN [raised |-> TRUE, goal_point |-> None, index |-> -1,
                  examined |-> examined \cup {i}]
            ELSE IF r.intersections # <<>>
            THEN [raised |-> FALSE, goal_point |-> NearestTo(r.intersections, pt2),
                  index |-> i, examined |-> examined \cup {i}]
            ELSE ScanFrom(pth, current_pos, look_ahead_distance, i + 1, numeric,
                          examined \cup {i})

\* find_goal_point scanning from segment 0 whatever last_found_index is.
find_goal_point_from_start(pth, current_pos, look_ahead_distance, lfi, numeric) ==
    ScanFrom(pth, current_pos, look_ahead_distance, 0, numeric, {})

\* Lines 127-135.
find_goal_point(pth, current_pos, look_ahead_distance, lfi, numeric) ==
    ScanFrom(pth, current_pos, look_ahead_distance, lfi, numeric, {})

\* The integer points of paths and positions.
Grid == {<<x, y>> : x \in 0..2, y \in 0..1}

\* Look-ahead distances.
LookAheads == {1, 2}

\* The arithmetic of the operands: Python floats or numpy scalars.
Numerics == {"float", "float64"}

RECURSIVE PathsOfLen(_)
PathsOfLen(n) ==
    IF n = 0 THEN {<<>>}
    ELSE {Append(q, g) : q \in PathsOfLen(n - 1), g \in Grid}

InitTrack ==
    /\ command_queue = <<>> /\ stop_event = FALSE /\ pc = "track"
    /\ waypoints = <<>> /\ ref = <<0, 0>> /\ proj_utm = None
    /\ x_est = None /\ P_est = None
    /\ published = <<>> /\ handled = <<>> /\ sent = 0
    /\ \E n \in 1..MaxPathLen : path \in PathsOfLen(n)
    /\ last_found_index = 0
    /\ call = NoCall

\* goal_point, last_found_index = find_goal_point(path, current_pos,
\* look_ahead_distance, last_found_index); a call that raises stores nothing.
Track ==
    /\ pc = "track"
    /\ \E current_pos \in Grid, look_ahead_distance \in LookAheads, numeric \in Numerics :
          LET r == find_goal_point(path, current_pos, look_ahead_distance,
                                   last_found_index, numeric)
          IN /\ call' = [fn |-> "find_goal_point", current_pos |-> current_pos,
                         look_ahead_distance |-> look_ahead_distance,
                         last_found_index |-> last_found_index,
                         numeric |-> numeric, result |-> r]
             /\ last_found_index' = IF r.raised THEN last_found_index ELSE r.index
    /\ UNCHANGED <<command_queue, stop_event, pc, waypoints, ref, proj_utm, x_est, P_est,
                   published, handled, sent, path>>

NextTrack == Track

SpecTrack == InitTrack /\ [][NextTrack]_vars

\* C5: a call of find_goal_point looks at no segment before
\* last_found_index, and the index it returns lies between last_found_index
\* and len(path) - 1; fed into the next call, the cursor never decreases
\* and stays an index of the path.
C5_CursorMonotone ==
    call.fn = "find_goal_point" =>
        /\ \A i \in call.result.examined : i >= call.last_found_index
        /\ ~call.result.raised =>
              /\ call.last_found_index <= call.result.index
              /\ call.result.index <= Len(path) - 1
              /\ last_found_index = call.result.index
        /\ call.last_found_index <= last_found_index
        /\ last_found_index \in 0..(Len(path) - 1)

\* C5 witness: on a path of three points a call made with the cursor at 1
\* looked at segment 1 only and returned an intersection on it.
C5_Witness ==
    /\ call.fn = "find_goal_point" /\ ~call.result.raised
    /\ Len(path) = 3
    /\ call.last_found_index = 1
    /\ call.result.examined = {1}
    /\ call.result.index = 1
    /\ call.result.goal_point # ExactPoint(path[3])

\* The valid intersections of the call's circle with segment i (0-based).
Hits(i) ==
    line_circle_intersection(call.current_pos, path[i + 1], path[i + 2],
                             call.look_ahead_distance, call.numeric).intersections

\* C6 (as claimed): every call returns a goal: the path's last point with
\* the last index when no segment from last_found_index on has a valid
\* intersection, else an intersection of the first segment that has one,
\* with that segment's index.
C6_GoalForEveryInput ==
    call.fn = "find_goal_point" =>
        LET hit == {i \in call.last_found_index..(Len(path) - 2) : Hits(i) # <<>>}
        IN /\ ~call.result.raised
           /\ IF hit = {}
              THEN /\ call.result.goal_point = ExactPoint(path[Len(path)])
                   /\ call.result.index = Len(path) - 1
              ELSE /\ \A i \in hit : call.result.index <= i
                   /\ call.result.index \in hit
                   /\ \E k \in 1..Len(Hits(call.result.index)) :
                         call.result.goal_point = Hits(call.result.index)[k]
============================================================================
